---- MODULE Spec2Model ----
(***************************************************************************)
(* jsonrpc-async: the JSON-RPC 2.0 client of src/jsonrpc_async/jsonrpc.py. *)
(*                                                                         *)
(* One client task is followed from the server handle: attribute accesses  *)
(* build a resolver chain (Server.__getattr__, Method.__getattr__), an     *)
(* invocation builds a Request (Method.raw) and starts the coroutine       *)
(* send_message or batch_message, which suspends at the POST and at the    *)
(* body read, where the HTTP collaborator completes, fails, or the task is *)
(* cancelled.                                                              *)
(*                                                                         *)
(* Python values: a name is a sequence of one-character strings, a dict is *)
(* a set of <<key, value>> pairs (or a sequence of them where the code     *)
(* depends on insertion order), a tuple is a sequence, None is None.       *)
(***************************************************************************)
EXTENDS Integers, Sequences, FiniteSets, TLC

VARIABLES
    obj,        \* the object the attribute chain has resolved to so far
    chain,      \* the names accessed so far, in order (history)
    dyn,        \* dyn[i]: chain[i] was resolved by a __getattr__ hook (history)
    pc,         \* "resolve", "created", "awaitPost", "awaitJson", "done"
    op,         \* what was invoked: "none", "call", "raw", "send_message",
                \* "batch_message", "_request"
    call,       \* the arguments of the invocation of a Method node or of raw
    message,    \* the Request handed to send_message (NoMessage before)
    kw,         \* the labelled Requests handed to batch_message
    caller_headers, \* the headers given to Server(...) (history)
    post_headers,   \* the headers bound in self._request
    posts,      \* the requests handed to session.post, in order
    response,   \* the HTTP response the POST completed with (NoResponse before)
    body,       \* the body response.json() read (NoBody before)
    jsonCalls,  \* how many times response.json() was invoked
    parseCalls, \* how many times Request.parse_response was invoked
    thrown,     \* the exception thrown into the coroutine at an await (history)
    outcome     \* how the invocation ended

vars == <<obj, chain, dyn, pc, op, call, message, kw, caller_headers,
          post_headers, posts, response, body, jsonCalls, parseCalls, thrown,
          outcome>>

hvars == <<caller_headers, post_headers>>

-----------------------------------------------------------------------------
(* Bounds *)

MaxDepth == 3        \* attribute accesses in one chain
MaxId == 2           \* ids are drawn from 1..MaxId
MaxResp == 2         \* elements of a batch response array

-----------------------------------------------------------------------------
(* Python values *)

None == -1

HTTP_OK == 200

\* the names a chain is built from
n_f == <<"f">>
n__f == <<"_", "f">>
n_raw == <<"r", "a", "w">>
n_session == <<"s", "e", "s", "s", "i", "o", "n">>
n_send_message == <<"s", "e", "n", "d", "_", "m", "e", "s", "s", "a", "g", "e">>
n_batch_message == <<"b", "a", "t", "c", "h", "_", "m", "e", "s", "s", "a", "g", "e">>
n__request == <<"_", "r", "e", "q", "u", "e", "s", "t">>
n__server == <<"_", "s", "e", "r", "v", "e", "r">>

\* the names accessed on the server handle, and on a resolver node
Names == {n_f, n__f, n_raw, n_session, n_send_message, n_batch_message,
          n__request, n__server}
NodeNames == {n_f, n__f, n_raw, n_session, n__server}

\* str.startswith("_")
startswith_(name) == Len(name) >= 1 /\ name[1] = "_"

\* "%s.%s" % (a, b)
DotFormat(a, b) == a \o <<".">> \o b

-----------------------------------------------------------------------------
(* Objects an attribute chain resolves to *)

ServerObj == [kind |-> "Server", name |-> <<>>]
MethodObj(name) == [kind |-> "Method", name |-> name]
AttrObj(kind) == [kind |-> kind, name |-> <<>>]
Raised(exc) == [kind |-> "raise", name |-> exc]

\* Method.__check_method_name: "ok", or the exception class it raises
\* (variant: the failure is a ProtocolError)
check_method_name_protocol(method_name) ==
    IF startswith_(method_name) THEN "ProtocolError" ELSE "ok"
check_method_name(method_name) ==
    IF startswith_(method_name) THEN "AttributeError" ELSE "ok"

\* Method.__init__
Method_init(method_name) ==
    IF check_method_name(method_name) # "ok"
    THEN Raised(check_method_name(method_name))
    ELSE MethodObj(method_name)

\* The attributes normal lookup finds on a Server instance: those set by
\* Server.__init__ and the methods of the class.  __getattr__ is not run
\* for them.
ServerAttrs == {n_session, n__request, n_send_message, n_batch_message}

\* The attributes normal lookup finds on a Method instance.
MethodAttrs == {n__server, n_raw}

\* Server.__getattr__
Server_getattr(method_name) == Method_init(method_name)

\* Method.__getattr__
\* (variants: the nested segment is not checked; the names are not joined)
Method_getattr_nocheck(self, method_name) ==
    Method_init(DotFormat(self.name, method_name))
Method_getattr_nojoin(self, method_name) ==
    IF check_method_name(method_name) # "ok"
    THEN Raised(check_method_name(method_name))
    ELSE Method_init(method_name)
Method_getattr(self, method_name) ==
    IF check_method_name(method_name) # "ok"
    THEN Raised(check_method_name(method_name))
    ELSE Method_init(DotFormat(self.name, method_name))

\* getattr(server, name)
Server_lookup(name) ==
    IF name \in ServerAttrs
    THEN (IF name = n_session THEN AttrObj("session")
          ELSE IF name = n__request THEN AttrObj("_request")
          ELSE IF name = n_send_message THEN AttrObj("send_message")
          ELSE AttrObj("batch_message"))
    ELSE Server_getattr(name)

\* getattr(method, name)
Method_lookup(self, name) ==
    IF name \in MethodAttrs
    THEN (IF name = n__server THEN ServerObj
          ELSE [kind |-> "raw", name |-> self.name])
    ELSE Method_getattr(self, name)

\* whether getattr(o, name) falls through to the __getattr__ hook
IsDynamic(o, name) ==
    IF o.kind = "Server" THEN name \notin ServerAttrs
    ELSE name \notin MethodAttrs

-----------------------------------------------------------------------------
(* Dicts: sets of <<key, value>> pairs with one pair per key *)

Has(d, k) == \E p \in d : p[1] = k
Get(d, k) == (CHOOSE p \in d : p[1] = k)[2]
Put(d, k, v) == {p \in d : p[1] # k} \cup {<<k, v>>}
Keys(d) == {p[1] : p \in d}

\* dict.pop(k, default): <<the value, the dict that is left>>
Pop(d, k, default) ==
    IF Has(d, k) THEN <<Get(d, k), {p \in d : p[1] # k}>> ELSE <<default, d>>

-----------------------------------------------------------------------------
(* Call arguments *)

IntVal(i) == [t |-> "int", i |-> i, d |-> {}]
MapVal(d) == [t |-> "map", i |-> 0, d |-> d]

\* isinstance(v, collections.abc.Mapping)
IsMapping(v) == v.t = "map"

ArgTuples == {<<>>, <<IntVal(42)>>, <<MapVal({<<"foo", 7>>})>>,
              <<MapVal({})>>, <<IntVal(42), IntVal(23)>>,
              <<MapVal({<<"foo", 7>>}), IntVal(42)>>}

KwargDicts == {{}, {<<"x", 42>>}, {<<"_notification", 1>>},
               {<<"x", 42>>, <<"_notification", 1>>},
               {<<"_notification", 0>>}}

NoCall == [args |-> <<>>, kwargs |-> {}]

-----------------------------------------------------------------------------
(* Request *)

PNone == [t |-> "None", a |-> <<>>, d |-> {}]
PTuple(a) == [t |-> "tuple", a |-> a, d |-> {}]
PDict(d) == [t |-> "dict", a |-> <<>>, d |-> d]

\* Request(method, params, msg_id)
Request(method, params, msg_id) ==
    [method |-> method, params |-> params, msg_id |-> msg_id]

NoMessage == [method |-> <<>>, params |-> PNone, msg_id |-> None,
              absent |-> TRUE]

\* Request.response_id (jsonrpc_base): the msg_id
response_id(m) == m.msg_id

\* Request.as_json_obj: a record that has the keys the wire object has
as_json_obj(m) ==
    IF m.params.t # "None" /\ m.msg_id # None
    THEN [jsonrpc |-> "2.0", method |-> m.method, params |-> m.params,
          id |-> m.msg_id]
    ELSE IF m.params.t # "None"
    THEN [jsonrpc |-> "2.0", method |-> m.method, params |-> m.params]
    ELSE IF m.msg_id # None
    THEN [jsonrpc |-> "2.0", method |-> m.method, id |-> m.msg_id]
    ELSE [jsonrpc |-> "2.0", method |-> m.method]

\* Request.serialize: json.dumps of the wire object
serialize(m) == [json |-> "object", v |-> as_json_obj(m)]

\* the result of raw: built |-> FALSE when it raises exc
RawRaise(exc) == [built |-> FALSE, exc |-> exc, request |-> NoMessage]
MixText ==
    [fmt |-> "JSON-RPC spec forbids mixing arguments and keyword arguments"]
RawRequest(m) == [built |-> TRUE, exc |-> "none", request |-> m]

\* Method.raw(*args, **kwargs), rnd the value random.randint returns
\* (variants: the mix of args and kwargs is not rejected; the id goes to the
\* notifications; a single mapping is not promoted)
raw_nomix(method_name, args, kwargs, rnd) ==
    LET popped == Pop(kwargs, "_notification", 0)
        msg_id == IF popped[1] # 0 THEN None ELSE rnd
        kwargs1 == popped[2]
        args1 == IF Len(args) = 1 /\ IsMapping(args[1])
                 THEN PDict(args[1].d) ELSE PTuple(args)
        truthy == IF args1.t = "dict" THEN args1.d # {} ELSE Len(args1.a) > 0
    IN  RawRequest(Request(method_name,
                           IF truthy THEN args1 ELSE PDict(kwargs1), msg_id))
raw_inverted(method_name, args, kwargs, rnd) ==
    LET popped == Pop(kwargs, "_notification", 0)
        msg_id == IF popped[1] # 0 THEN rnd ELSE None
        kwargs1 == popped[2]
        args1 == IF Len(args) = 1 /\ IsMapping(args[1])
                 THEN PDict(args[1].d) ELSE PTuple(args)
        truthy == IF args1.t = "dict" THEN args1.d # {} ELSE Len(args1.a) > 0
    IN  IF Len(args) > 0 /\ kwargs1 # {}
        THEN RawRaise("ProtocolError")
        ELSE RawRequest(Request(method_name,
                                IF truthy THEN args1 ELSE PDict(kwargs1), msg_id))
raw_nopromote(method_name, args, kwargs, rnd) ==
    LET popped == Pop(kwargs, "_notification", 0)
        msg_id == IF popped[1] # 0 THEN None ELSE rnd
        kwargs1 == popped[2]
    IN  IF Len(args) > 0 /\ kwargs1 # {}
        THEN RawRaise("ProtocolError")
        ELSE RawRequest(Request(method_name,
                                IF Len(args) > 0 THEN PTuple(args)
                                ELSE PDict(kwargs1), msg_id))
raw(method_name, args, kwargs, rnd) ==
    LET popped == Pop(kwargs, "_notification", 0)
        msg_id == IF popped[1] # 0 THEN None ELSE rnd
        kwargs1 == popped[2]
        args1 == IF Len(args) = 1 /\ IsMapping(args[1])
                 THEN PDict(args[1].d) ELSE PTuple(args)
        truthy == IF args1.t = "dict" THEN args1.d # {} ELSE Len(args1.a) > 0
    IN  IF Len(args) > 0 /\ kwargs1 # {}
        THEN RawRaise("ProtocolError")
        ELSE RawRequest(Request(method_name,
                                IF truthy THEN args1 ELSE PDict(kwargs1), msg_id))

\* Requests a caller builds itself, as the tests do with jsonrpc_base.Request
DirectRequests ==
    {Request(n_f, PNone, i) : i \in {None} \cup 1..MaxId}

-----------------------------------------------------------------------------
(* Server.__init__: the headers of every request *)

\* dict.get(k, default)
GetDefault(d, k, default) == IF Has(d, k) THEN Get(d, k) ELSE default

\* the headers= a caller gives to Server(...)
CallerHeaderSets ==
    {ct \cup ac \cup x :
        ct \in {{}, {<<"Content-Type", "text/plain">>}},
        ac \in {{}, {<<"Accept", "application/json">>}},
        x \in {{}, {<<"X-TestCustomHeader", "1">>}}}

\* lines 21-25: the headers bound in self._request
\* (variant: the transport's own values are always set)
Server_init_headers_pinned(caller) ==
    Put(Put(caller, "Content-Type", "application/json"),
        "Accept", "application/json-rpc")
Server_init_headers(caller) ==
    LET h1 == Put(caller, "Content-Type",
                  GetDefault(caller, "Content-Type", "application/json"))
    IN  Put(h1, "Accept", GetDefault(h1, "Accept", "application/json-rpc"))

\* lines 26-27: self._request(data=data) is session.post(url, data=data,
\* headers=headers)
request(data, headers) ==
    [json |-> data.json, v |-> data.v, headers |-> headers]

-----------------------------------------------------------------------------
(* The HTTP collaborator *)

Statuses == {200, 204, 404, 500}

Reason(status) ==
    IF status = 200 THEN "OK"
    ELSE IF status = 204 THEN "No Content"
    ELSE IF status = 404 THEN "Not Found"
    ELSE "Internal Server Error"

Responses == {[status |-> s, reason |-> Reason(s)] : s \in Statuses}
NoResponse == [status |-> 0, reason |-> "", absent |-> TRUE]

\* what the collaborator raises at an await: a connection error, a timeout
TransportExcs == {"ClientError", "TimeoutError"}

\* A response element: a dict with an optional id and a result or an error
ResultValues == {19, 23}
Elems ==
    {ident \cup payload :
        ident \in {{}} \cup {{<<"id", i>>} : i \in 1..MaxId},
        payload \in {{<<"result", r>>} : r \in ResultValues}
                    \cup {{<<"error", 5>>}}}

NotJson == [t |-> "notjson", d |-> {}, a |-> <<>>]
JObj(d) == [t |-> "obj", d |-> d, a |-> <<>>]
JArr(a) == [t |-> "arr", d |-> {}, a |-> a]
NoBody == [t |-> "none", d |-> {}, a |-> <<>>]

SeqsUpTo(S, n) == UNION {[1..k -> S] : k \in 0..n}

\* bodies a single call is answered with
SendBodies == {NotJson, JArr(<<>>)} \cup {JObj(e) : e \in Elems}

\* bodies a batch is answered with
BatchBodies == {NotJson} \cup {JObj(e) : e \in {{<<"id", 1>>, <<"result", 19>>}}}
               \cup {JArr(a) : a \in SeqsUpTo(Elems, MaxResp)}

-----------------------------------------------------------------------------
(* Outcomes *)

RNone == [t |-> "None"]
RResult(v) == [t |-> "result", v |-> v]
RDict(d) == [t |-> "dict", d |-> d]
RObject(kind) == [t |-> "object", kind |-> kind]

NoTag == [t |-> "none"]
RequestTag(m) == [t |-> "Request", m |-> m]
BatchTag == [t |-> "batch"]

NoText == [fmt |-> ""]

NoThrow == [at |-> "none", exc |-> "none"]
Thrown(at, exc) == [at |-> at, exc |-> exc]

NoOutcome == [kind |-> "none"]
Returned(v) == [kind |-> "return", value |-> v]
Raise(exc) ==
    [kind |-> "raise", exc |-> exc, text |-> NoText, tag |-> NoTag,
     cause |-> "none"]

\* jsonrpc_base.TransportError(exception_text, message, *args)
TransportError(text, tag, cause) ==
    [kind |-> "raise", exc |-> "TransportError", text |-> text, tag |-> tag,
     cause |-> cause]

\* 'HTTP %d %s' % (response.status, response.reason)
HttpText(resp) ==
    [fmt |-> "HTTP %d %s", status |-> resp.status, reason |-> resp.reason]

\* jsonrpc_base Request.parse_response(data).  strict: whether the
\* collaborator rejects a response whose id is not the Request's.
parse_response(m, data, strict) ==
    IF data.t # "obj" THEN Raise("ProtocolError")
    ELSE IF Has(data.d, "error") THEN Raise("ProtocolError")
    ELSE IF ~Has(data.d, "result") THEN Raise("ProtocolError")
    ELSE IF strict /\ (~Has(data.d, "id") \/ Get(data.d, "id") # m.msg_id)
    THEN Raise("ProtocolError")
    ELSE Returned(RResult(Get(data.d, "result")))

-----------------------------------------------------------------------------
(* Server.send_message *)

\* line 40: except (aiohttp.ClientError, asyncio.TimeoutError)
\* (variant: a bare except)
caught_at_post_any(exc) == TRUE
caught_at_post(exc) == exc \in {"ClientError", "TimeoutError"}

\* lines 53, 75: except ValueError
\* (variant: the decode failure is not caught)
caught_at_json_none(exc) == FALSE
caught_at_json(exc) == exc = "ValueError"

\* lines 43, 69: response.status != 200
\* (variants: only 5xx is an error; every 2xx is accepted)
status_is_error_5xx(status) == status >= 500
status_is_error_non2xx(status) == status < 200 \/ status > 299
status_is_error(status) == status # HTTP_OK

\* line 47: message.response_id is None
\* (variant: the notification test is missing)
is_notification_never(m) == FALSE
is_notification(m) == response_id(m) = None

\* lines 38-41: an exception thrown into the coroutine at the POST
send_post_raises(m, exc) ==
    IF caught_at_post(exc)
    THEN TransportError([fmt |-> "Transport Error"], RequestTag(m), exc)
    ELSE Raise(exc)

\* lines 43-49 once the POST has completed: the outcome, or NoOutcome when
\* the coroutine goes on to read the body
send_after_post(m, resp) ==
    IF status_is_error(resp.status)
    THEN TransportError(HttpText(resp), RequestTag(m), "none")
    ELSE IF is_notification(m) THEN Returned(RNone)
    ELSE NoOutcome

\* lines 51-55: an exception thrown into the coroutine at the body read
send_json_raises(m, exc) ==
    IF caught_at_json(exc)
    THEN TransportError([fmt |-> "Cannot deserialize response body"],
                        RequestTag(m), exc)
    ELSE Raise(exc)

-----------------------------------------------------------------------------
(* Server.batch_message; kw is the sequence of <<label, Request>> pairs in *)
(* keyword order                                                          *)

Labels == <<"a", "b">>

\* Requests built for a batch with server.f.raw(...)
BatchRequests ==
    {raw(n_f, <<>>, kwargs, rnd).request :
        kwargs \in {{}, {<<"_notification", 1>>}}, rnd \in 1..MaxId}

Batches ==
    UNION {[1..k -> BatchRequests] : k \in 0..Len(Labels)}

\* the keyword arguments of batch_message(**kw)
KwOf(requests) == [i \in 1..Len(requests) |-> <<Labels[i], requests[i]>>]

\* kw[label]
KwGet(k, label) == (CHOOSE i \in 1..Len(k) : k[i][1] = label)

\* line 61: [m.as_json_obj() for m in kw.values()]
batch_json(k) == [i \in 1..Len(k) |-> as_json_obj(k[i][2])]

\* line 62: {m['id']: k for k, m in kw.items()}; ok |-> FALSE is the
\* KeyError of m['id'] on a Request without id
\* (variant: a Request without id is left out)
RECURSIVE id_msg_skip(_)
id_msg_skip(k) ==
    IF Len(k) = 0 THEN [ok |-> TRUE, d |-> {}]
    ELSE LET rest == id_msg_skip(SubSeq(k, 1, Len(k) - 1))
             last == k[Len(k)]
         IN  IF "id" \notin DOMAIN as_json_obj(last[2]) THEN rest
             ELSE [ok |-> TRUE,
                   d |-> Put(rest.d, as_json_obj(last[2]).id, last[1])]
RECURSIVE id_msg(_)
id_msg(k) ==
    IF Len(k) = 0 THEN [ok |-> TRUE, d |-> {}]
    ELSE LET rest == id_msg(SubSeq(k, 1, Len(k) - 1))
             last == k[Len(k)]
         IN  IF ~rest.ok \/ "id" \notin DOMAIN as_json_obj(last[2])
             THEN [ok |-> FALSE, d |-> {}]
             ELSE [ok |-> TRUE,
                   d |-> Put(rest.d, as_json_obj(last[2]).id, last[1])]

\* the position of key in an ordered dict, 0 when it is not there
PosOf(s, key) ==
    IF \E i \in 1..Len(s) : s[i][1] = key
    THEN CHOOSE i \in 1..Len(s) : s[i][1] = key
    ELSE 0

\* line 78: {resp['id']: resp for resp in response_data}, in insertion
\* order; ok |-> FALSE is the KeyError of resp['id']
RECURSIVE r_data(_)
r_data(a) ==
    IF Len(a) = 0 THEN [ok |-> TRUE, s |-> <<>>]
    ELSE LET rest == r_data(SubSeq(a, 1, Len(a) - 1))
             last == a[Len(a)]
         IN  IF ~rest.ok \/ ~Has(last, "id") THEN [ok |-> FALSE, s |-> <<>>]
             ELSE LET key == Get(last, "id")
                      at == PosOf(rest.s, key)
                  IN  [ok |-> TRUE,
                       s |-> IF at = 0 THEN Append(rest.s, <<key, last>>)
                             ELSE [rest.s EXCEPT ![at] = <<key, last>>]]

\* line 79: id_msg[_id], the label an element of r_data goes to; pos is the
\* element's position
\* (variant: the label is taken by position)
label_for_position(idmsg, k, ident, pos) ==
    IF pos <= Len(k) THEN k[pos][1] ELSE Get(idmsg, ident)
label_for(idmsg, k, ident, pos) == Get(idmsg, ident)

\* lines 79-80: the dict comprehension over r_data.items(), evaluated in
\* order; the first KeyError or response-level error ends it
\* (variant: an element the parser rejects is left out of the mapping)
RECURSIVE correlate_partial(_, _, _, _)
correlate_partial(k, idmsg, rd, strict) ==
    IF Len(rd) = 0 THEN [out |-> Returned(RDict({})), n |-> 0]
    ELSE LET rest == correlate_partial(k, idmsg, SubSeq(rd, 1, Len(rd) - 1),
                                       strict)
             last == rd[Len(rd)]
         IN  IF rest.out.kind = "raise" THEN rest
             ELSE IF ~Has(idmsg, last[1])
             THEN [out |-> Raise("KeyError"), n |-> rest.n]
             ELSE LET label == label_for(idmsg, k, last[1], Len(rd))
                      parsed == parse_response(k[KwGet(k, label)][2],
                                               JObj(last[2]), strict)
                  IN  IF parsed.kind = "raise"
                      THEN [out |-> rest.out, n |-> rest.n + 1]
                      ELSE [out |-> Returned(RDict(Put(rest.out.value.d, label,
                                                       parsed.value.v))),
                            n |-> rest.n + 1]
RECURSIVE correlate(_, _, _, _)
correlate(k, idmsg, rd, strict) ==
    IF Len(rd) = 0 THEN [out |-> Returned(RDict({})), n |-> 0]
    ELSE LET rest == correlate(k, idmsg, SubSeq(rd, 1, Len(rd) - 1), strict)
             last == rd[Len(rd)]
         IN  IF rest.out.kind = "raise" THEN rest
             ELSE IF ~Has(idmsg, last[1])
             THEN [out |-> Raise("KeyError"), n |-> rest.n]
             ELSE LET label == label_for(idmsg, k, last[1], Len(rd))
                      parsed == parse_response(k[KwGet(k, label)][2],
                                               JObj(last[2]), strict)
                  IN  IF parsed.kind = "raise"
                      THEN [out |-> parsed, n |-> rest.n + 1]
                      ELSE [out |-> Returned(RDict(Put(rest.out.value.d, label,
                                                       parsed.value.v))),
                            n |-> rest.n + 1]

\* lines 64-67: an exception thrown into the coroutine at the POST
\* (variant: the exception is not handed to TransportError)
batch_post_raises_nocause(exc) ==
    IF caught_at_post(exc)
    THEN TransportError([fmt |-> "Transport Error"], BatchTag, "none")
    ELSE Raise(exc)
batch_post_raises(exc) ==
    IF caught_at_post(exc)
    THEN TransportError([fmt |-> "Transport Error"], BatchTag, exc)
    ELSE Raise(exc)

\* lines 69-71 once the POST has completed
batch_after_post(resp) ==
    IF status_is_error(resp.status)
    THEN TransportError(HttpText(resp), BatchTag, "none")
    ELSE NoOutcome

\* lines 73-77: an exception thrown into the coroutine at the body read
batch_json_raises(exc) ==
    IF caught_at_json(exc)
    THEN TransportError([fmt |-> "Cannot deserialize response body"],
                        BatchTag, exc)
    ELSE Raise(exc)

\* lines 78-80 on the decoded body.  Iterating a JSON object yields its
\* keys, and resp['id'] on a str is a TypeError.
batch_result(k, data, strict) ==
    IF data.t = "obj" THEN [out |-> Raise("TypeError"), n |-> 0]
    ELSE LET rd == r_data(data.a)
         IN  IF ~rd.ok THEN [out |-> Raise("KeyError"), n |-> 0]
             ELSE correlate(k, id_msg(k).d, rd.s, strict)

-----------------------------------------------------------------------------
(* The task *)

\* the handle once Server(url, session, headers=caller) has run
Constructed(caller) ==
    /\ caller_headers = caller
    /\ post_headers = Server_init_headers(caller)
    /\ obj = ServerObj
    /\ chain = <<>>
    /\ dyn = <<>>
    /\ pc = "resolve"
    /\ op = "none"
    /\ call = NoCall
    /\ message = NoMessage
    /\ kw = <<>>
    /\ posts = <<>>
    /\ response = NoResponse
    /\ body = NoBody
    /\ jsonCalls = 0
    /\ parseCalls = 0
    /\ thrown = NoThrow
    /\ outcome = NoOutcome

\* Server(url, session): no headers given
Init == Constructed({})

\* Server(url, session, headers=...)
InitHeaders == \E caller \in CallerHeaderSets : Constructed(caller)

\* getattr(obj, name) on the server handle or on a resolver node
GetAttr(name) ==
    /\ pc = "resolve"
    /\ UNCHANGED hvars
    /\ UNCHANGED thrown
    /\ obj.kind \in {"Server", "Method"}
    /\ Len(chain) < MaxDepth
    /\ obj.kind = "Method" => name \in NodeNames
    /\ LET r == IF obj.kind = "Server" THEN Server_lookup(name)
                ELSE Method_lookup(obj, name)
       IN  /\ chain' = Append(chain, name)
           /\ dyn' = Append(dyn, IsDynamic(obj, name))
           /\ IF r.kind = "raise"
              THEN /\ outcome' = Raise(r.name)
                   /\ pc' = "done"
                   /\ obj' = obj
              ELSE /\ obj' = r
                   /\ UNCHANGED <<outcome, pc>>
    /\ UNCHANGED <<op, call, message, kw, posts, response, body, jsonCalls,
                   parseCalls>>

\* Method.__call__(*args, **kwargs): raw runs at the invocation, and
\* send_message(...) creates the coroutine
Call(args, kwargs, rnd) ==
    /\ pc = "resolve"
    /\ UNCHANGED hvars
    /\ UNCHANGED thrown
    /\ obj.kind = "Method"
    /\ op' = "call"
    /\ call' = [args |-> args, kwargs |-> kwargs]
    /\ LET r == raw(obj.name, args, kwargs, rnd)
       IN  IF r.built
           THEN /\ message' = r.request
                /\ pc' = "created"
                /\ UNCHANGED outcome
           ELSE /\ outcome' = [Raise(r.exc) EXCEPT !.text = MixText]
                /\ pc' = "done"
                /\ UNCHANGED message
    /\ UNCHANGED <<obj, chain, dyn, kw, posts, response, body, jsonCalls,
                   parseCalls>>

\* node.raw(*args, **kwargs): the Request is returned, nothing is sent
InvokeRaw(args, kwargs, rnd) ==
    /\ pc = "resolve"
    /\ UNCHANGED hvars
    /\ UNCHANGED thrown
    /\ obj.kind = "raw"
    /\ op' = "raw"
    /\ call' = [args |-> args, kwargs |-> kwargs]
    /\ pc' = "done"
    /\ LET r == raw(obj.name, args, kwargs, rnd)
       IN  IF r.built
           THEN /\ message' = r.request
                /\ outcome' = Returned(RObject("Request"))
           ELSE /\ outcome' = [Raise(r.exc) EXCEPT !.text = MixText]
                /\ UNCHANGED message
    /\ UNCHANGED <<obj, chain, dyn, kw, posts, response, body, jsonCalls,
                   parseCalls>>

\* server.send_message(m) with a Request the caller built
InvokeSendMessage(m) ==
    /\ pc = "resolve"
    /\ UNCHANGED hvars
    /\ UNCHANGED thrown
    /\ obj.kind = "send_message"
    /\ op' = "send_message"
    /\ message' = m
    /\ pc' = "created"
    /\ UNCHANGED <<obj, chain, dyn, call, kw, posts, response, body, jsonCalls,
                   parseCalls, outcome>>

\* server.batch_message(**kw)
InvokeBatchMessage(requests) ==
    /\ pc = "resolve"
    /\ UNCHANGED hvars
    /\ UNCHANGED thrown
    /\ obj.kind = "batch_message"
    /\ op' = "batch_message"
    /\ kw' = KwOf(requests)
    /\ pc' = "created"
    /\ UNCHANGED <<obj, chain, dyn, call, message, posts, response, body,
                   jsonCalls, parseCalls, thrown, outcome>>

\* server._request(data=...): the partial of session.post, line 26
InvokeRequest ==
    /\ pc = "resolve"
    /\ UNCHANGED hvars
    /\ UNCHANGED thrown
    /\ obj.kind = "_request"
    /\ op' = "_request"
    /\ posts' = Append(posts, request([json |-> "caller",
                                        v |-> [jsonrpc |-> "2.0"]],
                                       post_headers))
    /\ pc' = "done"
    /\ outcome' = Returned(RObject("response"))
    /\ UNCHANGED <<obj, chain, dyn, call, message, kw, response, body,
                   jsonCalls, parseCalls>>

IsSend == op \in {"call", "send_message"}
IsBatch == op = "batch_message"

\* send_message runs to its first await: line 39
SendStart ==
    /\ pc = "created"
    /\ UNCHANGED hvars
    /\ UNCHANGED thrown
    /\ IsSend
    /\ posts' = Append(posts, request(serialize(message), post_headers))
    /\ pc' = "awaitPost"
    /\ UNCHANGED <<obj, chain, dyn, op, call, message, kw, response, body,
                   jsonCalls, parseCalls, thrown, outcome>>

\* batch_message runs to its first await: lines 61-65
BatchStart ==
    /\ pc = "created"
    /\ UNCHANGED hvars
    /\ UNCHANGED thrown
    /\ IsBatch
    /\ IF id_msg(kw).ok
       THEN /\ posts' = Append(posts, request([json |-> "array",
                                               v |-> batch_json(kw)],
                                              post_headers))
            /\ pc' = "awaitPost"
            /\ UNCHANGED outcome
       ELSE /\ outcome' = Raise("KeyError")
            /\ pc' = "done"
            /\ UNCHANGED posts
    /\ UNCHANGED <<obj, chain, dyn, op, call, message, kw, response, body,
                   jsonCalls, parseCalls>>

\* the POST completes with a response: lines 43-52 / 69-74
PostCompletes(resp) ==
    /\ pc = "awaitPost"
    /\ UNCHANGED hvars
    /\ UNCHANGED thrown
    /\ response' = resp
    /\ LET out == IF IsSend THEN send_after_post(message, resp)
                  ELSE batch_after_post(resp)
       IN  IF out.kind = "none"
           THEN /\ jsonCalls' = jsonCalls + 1
                /\ pc' = "awaitJson"
                /\ UNCHANGED outcome
           ELSE /\ outcome' = out
                /\ pc' = "done"
                /\ UNCHANGED jsonCalls
    /\ UNCHANGED <<obj, chain, dyn, op, call, message, kw, posts, body,
                   parseCalls>>

\* the HTTP collaborator raises while the POST is awaited
PostRaises(exc) ==
    /\ pc = "awaitPost"
    /\ UNCHANGED hvars
    /\ thrown' = Thrown("post", exc)
    /\ outcome' = IF IsSend THEN send_post_raises(message, exc)
                  ELSE batch_post_raises(exc)
    /\ pc' = "done"
    /\ UNCHANGED <<obj, chain, dyn, op, call, message, kw, posts, response,
                   body, jsonCalls, parseCalls>>

\* the body arrives and response.json() decodes it: lines 52-57 / 74-80
JsonCompletes(b, strict) ==
    /\ pc = "awaitJson"
    /\ UNCHANGED hvars
    /\ body' = b
    /\ pc' = "done"
    /\ thrown' = IF b.t = "notjson" THEN Thrown("json", "ValueError")
                 ELSE thrown
    /\ IF b.t = "notjson"
       THEN /\ outcome' = IF IsSend THEN send_json_raises(message, "ValueError")
                          ELSE batch_json_raises("ValueError")
            /\ UNCHANGED parseCalls
       ELSE IF IsSend
       THEN /\ outcome' = parse_response(message, b, strict)
            /\ parseCalls' = parseCalls + 1
       ELSE LET r == batch_result(kw, b, strict)
            IN  /\ outcome' = r.out
                /\ parseCalls' = parseCalls + r.n
    /\ UNCHANGED <<obj, chain, dyn, op, call, message, kw, posts, response,
                   jsonCalls>>

\* the HTTP collaborator raises while the body is read
JsonRaises(exc) ==
    /\ pc = "awaitJson"
    /\ UNCHANGED hvars
    /\ thrown' = Thrown("json", exc)
    /\ outcome' = IF IsSend THEN send_json_raises(message, exc)
                  ELSE batch_json_raises(exc)
    /\ pc' = "done"
    /\ UNCHANGED <<obj, chain, dyn, op, call, message, kw, posts, response,
                   body, jsonCalls, parseCalls>>

\* the task is cancelled while the coroutine is suspended: CancelledError
\* is thrown into it at the await
Cancel ==
    /\ pc \in {"awaitPost", "awaitJson"}
    /\ UNCHANGED hvars
    /\ thrown' = Thrown(IF pc = "awaitPost" THEN "post" ELSE "json",
                        "CancelledError")
    /\ outcome' =
         IF pc = "awaitPost"
         THEN (IF IsSend THEN send_post_raises(message, "CancelledError")
               ELSE batch_post_raises("CancelledError"))
         ELSE (IF IsSend THEN send_json_raises(message, "CancelledError")
               ELSE batch_json_raises("CancelledError"))
    /\ pc' = "done"
    /\ UNCHANGED <<obj, chain, dyn, op, call, message, kw, posts, response,
                   body, jsonCalls, parseCalls>>

Next ==
    \/ \E name \in Names : GetAttr(name)
    \/ \E args \in ArgTuples, kwargs \in KwargDicts, rnd \in 1..MaxId :
          Call(args, kwargs, rnd)
    \/ \E args \in ArgTuples, kwargs \in KwargDicts, rnd \in 1..MaxId :
          InvokeRaw(args, kwargs, rnd)
    \/ \E m \in DirectRequests : InvokeSendMessage(m)
    \/ \E requests \in Batches : InvokeBatchMessage(requests)
    \/ InvokeRequest
    \/ SendStart
    \/ BatchStart
    \/ \E resp \in Responses : PostCompletes(resp)
    \/ \E exc \in TransportExcs : PostRaises(exc)
    \/ /\ pc = "awaitJson"
       /\ \E b \in (IF IsSend THEN SendBodies ELSE BatchBodies),
             strict \in BOOLEAN :
             JsonCompletes(b, strict)
    \/ \E exc \in TransportExcs : JsonRaises(exc)
    \/ Cancel

Spec == Init /\ [][Next]_vars

\* The requests a handle built with caller headers posts, followed until
\* the body read starts.
NextHeaders ==
    \/ \E name \in Names : GetAttr(name)
    \/ \E args \in ArgTuples, kwargs \in KwargDicts, rnd \in 1..MaxId :
          Call(args, kwargs, rnd)
    \/ \E m \in DirectRequests : InvokeSendMessage(m)
    \/ \E requests \in Batches : InvokeBatchMessage(requests)
    \/ InvokeRequest
    \/ SendStart
    \/ BatchStart
    \/ \E resp \in Responses : PostCompletes(resp)

SpecHeaders == InitHeaders /\ [][NextHeaders]_vars

-----------------------------------------------------------------------------
(* Properties *)

HasResponse == "absent" \notin DOMAIN response
HasMessage == "absent" \notin DOMAIN message

\* the ids of the Requests of the batch, by position
KwId(i) == kw[i][2].msg_id

\* the batch's Requests carry ids, pairwise distinct
DistinctIds ==
    /\ \A i \in 1..Len(kw) : KwId(i) # None
    /\ \A i, j \in 1..Len(kw) : i # j => KwId(i) # KwId(j)

IsSuccessElem(e) == Has(e, "id") /\ Has(e, "result") /\ ~Has(e, "error")

\* the body is an array with exactly one success response per request id,
\* in some order
OneSuccessPerId ==
    /\ body.t = "arr"
    /\ Len(body.a) = Len(kw)
    /\ \A j \in 1..Len(body.a) : IsSuccessElem(body.a[j])
    /\ \A i \in 1..Len(kw) :
          \E j \in 1..Len(body.a) : Get(body.a[j], "id") = KwId(i)

\* the result carried by the response element whose id is ident
ResultFor(ident) ==
    Get(body.a[CHOOSE j \in 1..Len(body.a) : Get(body.a[j], "id") = ident],
        "result")

BatchAnswered ==
    /\ IsBatch
    /\ pc = "done"
    /\ HasResponse
    /\ response.status = 200
    /\ DistinctIds
    /\ OneSuccessPerId

\* C1: a batch of labelled Requests with distinct ids, answered with status
\* 200 and an array holding one success response per request id in any
\* order, returns the mapping that gives each label the result of the
\* element whose id is the id of that label's Request.
C1_BatchCorrelatesById ==
    BatchAnswered =>
        outcome = Returned(RDict({<<kw[i][1], ResultFor(KwId(i))>> :
                                     i \in 1..Len(kw)}))

\* two labels answered in reversed order with different results
C1_Witness ==
    /\ BatchAnswered
    /\ Len(kw) = 2
    /\ Get(body.a[1], "id") = KwId(2)
    /\ Get(body.a[2], "id") = KwId(1)
    /\ Get(body.a[1], "result") # Get(body.a[2], "result")
    /\ outcome.kind = "return"

\* a call through a resolver node with a true _notification flag, whose
\* Request was built
NotificationCall ==
    /\ op = "call"
    /\ Pop(call.kwargs, "_notification", 0)[1] # 0
    /\ HasMessage

NoIdOnTheWire == \A i \in 1..Len(posts) : "id" \notin DOMAIN posts[i].v

\* C2 as stated: a notification call sends no id and returns None without
\* reading the body, for every HTTP status and every body.
C2_Original ==
    NotificationCall =>
        /\ NoIdOnTheWire
        /\ jsonCalls = 0
        /\ parseCalls = 0
        /\ HasResponse => (pc = "done" /\ outcome = Returned(RNone))

\* C2 amended: a notification call sends no id and never reads or parses
\* the body; it returns None when the status is 200, and raises the HTTP
\* TransportError for every other status.
C2_NotificationOn200 ==
    NotificationCall =>
        /\ NoIdOnTheWire
        /\ jsonCalls = 0
        /\ parseCalls = 0
        /\ HasResponse =>
              /\ pc = "done"
              /\ response.status = 200 => outcome = Returned(RNone)
              /\ response.status # 200 =>
                    outcome = TransportError(HttpText(response),
                                             RequestTag(message), "none")

C2_Witness ==
    /\ NotificationCall
    /\ Len(posts) = 1
    /\ HasResponse
    /\ response.status = 200
    /\ outcome = Returned(RNone)

\* C3 as stated: a connection error or timeout raised by the HTTP
\* collaborator at either await of send_message reaches the caller as a
\* TransportError wrapping it and tagged with the Request.
C3_Original ==
    (IsSend /\ thrown.exc \in TransportExcs) =>
        /\ pc = "done"
        /\ outcome.kind = "raise"
        /\ outcome.exc = "TransportError"
        /\ outcome.cause = thrown.exc
        /\ outcome.tag = RequestTag(message)

Is2xx(status) == status >= 200 /\ status <= 299

\* C5: for every response of send_message whose status is not 2xx the
\* outcome is the TransportError "HTTP <status> <reason>" tagged with the
\* Request, and the body is neither decoded nor parsed.
C5_Non2xxIsTransportError ==
    (IsSend /\ HasResponse /\ ~Is2xx(response.status)) =>
        /\ pc = "done"
        /\ outcome = TransportError(HttpText(response), RequestTag(message),
                                    "none")
        /\ outcome.text.status = response.status
        /\ jsonCalls = 0
        /\ parseCalls = 0

C5_Witness ==
    /\ IsSend
    /\ message.msg_id # None
    /\ HasResponse
    /\ response.status = 404
    /\ outcome.kind = "raise"
    /\ outcome.exc = "TransportError"
    /\ outcome.text = [fmt |-> "HTTP %d %s", status |-> 404,
                       reason |-> "Not Found"]

\* the body read is a success response carrying the Request's id
SuccessForMessage ==
    /\ body.t = "obj"
    /\ IsSuccessElem(body.d)
    /\ Get(body.d, "id") = message.msg_id

\* C6 as stated: a non-notification Request answered with any 2xx status
\* and a valid success response returns the result; only non-2xx statuses
\* are classified as the HTTP TransportError.
C6_Original ==
    (IsSend /\ HasMessage /\ message.msg_id # None /\ HasResponse
       /\ Is2xx(response.status)) =>
        /\ ~(outcome.kind = "raise" /\ outcome.text.fmt = "HTTP %d %s")
        /\ (pc = "done" /\ SuccessForMessage) =>
              outcome = Returned(RResult(Get(body.d, "result")))

\* C6 amended: a non-notification Request answered with status 200 and a
\* valid success response for its id returns the result; every other
\* status, the other 2xx statuses included, is classified as the HTTP
\* TransportError and the body is not read.
C6_Only200Succeeds ==
    (IsSend /\ HasMessage /\ message.msg_id # None /\ HasResponse) =>
        /\ response.status # 200 =>
              /\ pc = "done"
              /\ outcome = TransportError(HttpText(response),
                                          RequestTag(message), "none")
              /\ jsonCalls = 0
        /\ (response.status = 200 /\ pc = "done" /\ SuccessForMessage) =>
              outcome = Returned(RResult(Get(body.d, "result")))

C6_Witness ==
    /\ IsSend
    /\ message.msg_id # None
    /\ HasResponse
    /\ response.status = 200
    /\ pc = "done"
    /\ SuccessForMessage
    /\ outcome = Returned(RResult(19))

\* the keyword arguments of the call other than the notification flag
NamedArgs == Pop(call.kwargs, "_notification", 0)[2]

MixedCall == op = "call" /\ Len(call.args) > 0 /\ NamedArgs # {}

\* C7: a call with both positional and keyword arguments raises the
\* ProtocolError at the invocation: no coroutine is created and nothing is
\* posted.
C7_MixedArgsRejected ==
    MixedCall =>
        /\ pc = "done"
        /\ outcome = [Raise("ProtocolError") EXCEPT !.text = MixText]
        /\ ~HasMessage
        /\ posts = <<>>
        /\ ~HasResponse

C7_Witness ==
    /\ MixedCall
    /\ Len(call.args) = 2
    /\ outcome.kind = "raise"
    /\ outcome.exc = "ProtocolError"
    /\ posts = <<>>

PrivateAt(i) == startswith_(chain[i])

ResolutionFailed == pc = "done" /\ op = "none" /\ outcome.kind = "raise"

\* C8 as stated: every chain with a segment starting with '_' fails at that
\* segment, and nothing is ever posted through it.
C8_Original ==
    \A i \in 1..Len(chain) :
        PrivateAt(i) => (i = Len(chain) /\ ResolutionFailed /\ posts = <<>>)

\* C8 amended: a segment starting with '_' that normal attribute lookup does
\* not find on the handle or node (so that __getattr__ resolves it) fails
\* there: the chain ends at that segment with an exception, nothing is
\* invoked and nothing is posted.
C8_PrivateDynamicFails ==
    \A i \in 1..Len(chain) :
        (PrivateAt(i) /\ dyn[i]) =>
            (i = Len(chain) /\ ResolutionFailed /\ posts = <<>>)

\* a nested private segment
C8_Witness ==
    /\ Len(chain) >= 2
    /\ PrivateAt(Len(chain))
    /\ dyn[Len(chain)]
    /\ ~PrivateAt(1)
    /\ ResolutionFailed
    /\ posts = <<>>

\* C9 as stated: the failure of a private segment is a ProtocolError.
C9_Original ==
    ResolutionFailed => outcome.exc = "ProtocolError"

\* C9 amended: the failure of a private segment, at the top level and at any
\* depth, is an AttributeError; the ProtocolError is the failure of a call
\* that mixes positional and keyword arguments.
C9_PrivateIsAttributeError ==
    /\ ResolutionFailed => outcome = Raise("AttributeError")
    /\ (\E i \in 1..Len(chain) : PrivateAt(i) /\ dyn[i]) =>
          (pc = "done" /\ outcome = Raise("AttributeError"))
    /\ MixedCall => outcome.exc = "ProtocolError"

\* a private name at the top level
C9_Witness ==
    /\ Len(chain) = 1
    /\ PrivateAt(1)
    /\ outcome = Raise("AttributeError")

\* the dot-joined chain of accessed names
RECURSIVE DotJoin(_)
DotJoin(names) ==
    IF Len(names) = 0 THEN <<>>
    ELSE IF Len(names) = 1 THEN names[1]
    ELSE DotFormat(DotJoin(SubSeq(names, 1, Len(names) - 1)), names[Len(names)])

NoPrivate == \A i \in 1..Len(chain) : ~PrivateAt(i)
AllDynamic == \A i \in 1..Len(chain) : dyn[i]

\* the chain resolved to the resolver of its dot-joined names, and a call of
\* it built and posted a Request with that method
ResolvesToRemoteMethod ==
    /\ obj = MethodObj(DotJoin(chain))
    /\ (op = "call" /\ HasMessage) => message.method = DotJoin(chain)
    /\ \A i \in 1..Len(posts) : posts[i].v.method = DotJoin(chain)

\* C10 as stated: every chain of names not starting with '_' resolves to the
\* remote method named by the dot-joined chain; no name is reserved.
C10_Original ==
    (Len(chain) >= 1 /\ NoPrivate) => ResolvesToRemoteMethod

\* C10 amended: every chain of names that do not start with '_' and that
\* normal attribute lookup does not find on the handle (session,
\* send_message, batch_message) or on a node (raw) resolves to the remote
\* method named by the dot-joined chain, and calling it posts a Request
\* with that method.
C10_DynamicNamesJoin ==
    (Len(chain) >= 1 /\ NoPrivate /\ AllDynamic) => ResolvesToRemoteMethod

C10_Witness ==
    /\ Len(chain) = 3
    /\ NoPrivate
    /\ AllDynamic
    /\ chain[2] = n_session
    /\ op = "call"
    /\ Len(posts) = 1
    /\ posts[1].v.method = DotJoin(chain)
    /\ Len(DotJoin(chain)) = Len(chain[1]) + Len(chain[2]) + Len(chain[3]) + 2

NoNamedOrPositional == Len(call.args) = 0 /\ NamedArgs = {}

\* C11 as stated: a call with no positional and no keyword arguments, with
\* or without the notification flag, posts an object without "params".
C11_Original ==
    (op = "call" /\ NoNamedOrPositional) =>
        \A i \in 1..Len(posts) : "params" \notin DOMAIN posts[i].v

NotificationFlag == Pop(call.kwargs, "_notification", 0)[1] # 0

InFlight == pc \in {"awaitPost", "awaitJson"}

\* C12 as stated: two Requests with ids that are in flight at the same time,
\* the Requests of one batch included, carry different ids.
C12_Original ==
    (IsBatch /\ InFlight) =>
        \A i, j \in 1..Len(kw) :
            (i # j /\ KwId(i) # None /\ KwId(j) # None) => KwId(i) # KwId(j)

\* C12 amended: every Request a call builds without the notification flag
\* carries an id drawn from the random range, and one built with the flag
\* carries none; the draws are independent and nothing compares them, so
\* the Requests in flight in one batch all carry ids of the range, which
\* may be equal.
C12_IdsDrawnFromRange ==
    /\ (op \in {"call", "raw"} /\ HasMessage) =>
          IF NotificationFlag THEN message.msg_id = None
          ELSE message.msg_id \in 1..MaxId
    /\ (IsBatch /\ InFlight) =>
          \A i \in 1..Len(kw) : KwId(i) \in 1..MaxId

\* two Requests of one batch in flight with the same id
C12_Witness ==
    /\ IsBatch
    /\ pc = "awaitPost"
    /\ Len(kw) = 2
    /\ KwId(1) = KwId(2)
    /\ KwId(1) \in 1..MaxId

\* C13: a non-notification Request answered with status 200 and a body that
\* is not JSON raises the TransportError "Cannot deserialize response body"
\* with the decode exception as cause, and the parser is not invoked.
C13_UndecodableBody ==
    (IsSend /\ pc = "done" /\ body = NotJson) =>
        /\ message.msg_id # None
        /\ response.status = 200
        /\ outcome = TransportError(
                        [fmt |-> "Cannot deserialize response body"],
                        RequestTag(message), "ValueError")
        /\ parseCalls = 0

C13_Witness ==
    /\ IsSend
    /\ body = NotJson
    /\ response.status = 200
    /\ outcome.kind = "raise"
    /\ outcome.exc = "TransportError"
    /\ outcome.cause = "ValueError"
    /\ parseCalls = 0

\* the params of a positional call: the mapping itself when it is the only
\* argument, the sequence of the arguments otherwise
PositionalParams ==
    IF Len(call.args) = 1 /\ call.args[1].t = "map"
    THEN [t |-> "dict", a |-> <<>>, d |-> call.args[1].d]
    ELSE [t |-> "tuple", a |-> call.args, d |-> {}]

\* C15: a call with exactly one positional argument that is a mapping, and
\* no keyword arguments, builds a Request whose params is that mapping and
\* posts it as an object; any other positional call has the sequence of its
\* arguments as params.
C15_SingleMappingPromoted ==
    (op \in {"call", "raw"} /\ HasMessage /\ Len(call.args) > 0
       /\ NamedArgs = {}) =>
        /\ message.params = PositionalParams
        /\ op = "call" =>
              \A i \in 1..Len(posts) : posts[i].v.params = PositionalParams

C15_Witness ==
    /\ op = "call"
    /\ call.args = <<MapVal({<<"foo", 7>>})>>
    /\ Len(posts) = 1
    /\ posts[1].v.params.t = "dict"
    /\ posts[1].v.params.d = {<<"foo", 7>>}

HeaderDefault(key) ==
    IF key = "Content-Type" THEN "application/json" ELSE "application/json-rpc"

\* C14: every request a handle posts carries Content-Type and Accept, with
\* the caller's value where the caller's headers set the key and
\* application/json, application/json-rpc otherwise, and every other header
\* of the caller unchanged.
C14_HeadersMerged ==
    \A i \in 1..Len(posts) :
        /\ \A key \in {"Content-Type", "Accept"} :
              /\ Has(posts[i].headers, key)
              /\ Get(posts[i].headers, key) =
                    IF Has(caller_headers, key) THEN Get(caller_headers, key)
                    ELSE HeaderDefault(key)
        /\ caller_headers \subseteq posts[i].headers
        /\ Keys(posts[i].headers) =
              Keys(caller_headers) \cup {"Content-Type", "Accept"}
        /\ Cardinality(posts[i].headers) = Cardinality(Keys(posts[i].headers))

\* the caller set Content-Type and a header of its own, not Accept
C14_Witness ==
    /\ caller_headers = {<<"Content-Type", "text/plain">>,
                         <<"X-TestCustomHeader", "1">>}
    /\ op = "call"
    /\ Len(posts) = 1
    /\ posts[1].headers = {<<"Content-Type", "text/plain">>,
                           <<"Accept", "application/json-rpc">>,
                           <<"X-TestCustomHeader", "1">>}

\* the labels passed to batch_message
BatchLabels == {kw[i][1] : i \in 1..Len(kw)}

BatchReturned == IsBatch /\ pc = "done" /\ outcome.kind = "return"

\* C16 (as stated): whenever batch_message returns normally, the keys of
\* the returned mapping are exactly the labels passed in.
C16_Original ==
    BatchReturned => Keys(outcome.value.d) = BatchLabels

RaisedTransportError ==
    /\ IsSend \/ IsBatch
    /\ pc = "done"
    /\ outcome.kind = "raise"
    /\ outcome.exc = "TransportError"

\* the Request of send_message, the batch marker of batch_message
OffendingTag == IF IsSend THEN RequestTag(message) ELSE BatchTag

\* C17 (as stated): every TransportError of send_message or batch_message
\* carries the underlying cause and the offending Request or the batch
\* marker.
C17_Original ==
    RaisedTransportError =>
        /\ outcome.cause # "none"
        /\ outcome.tag = OffendingTag

\* C17: every TransportError of send_message or batch_message is built with
\* the offending Request or the batch marker; it is built with the
\* exception caught at the POST or at the body read as its cause, and with
\* the HTTP status text and no cause when it reports a status other than
\* 200.
C17_TransportErrorCarries ==
    RaisedTransportError =>
        /\ outcome.tag = OffendingTag
        /\ IF thrown = NoThrow
           THEN /\ HasResponse
                /\ response.status # HTTP_OK
                /\ outcome.text = HttpText(response)
                /\ outcome.cause = "none"
           ELSE /\ thrown.exc \in TransportExcs \cup {"ValueError"}
                /\ outcome.cause = thrown.exc
                /\ outcome.text \in
                      {[fmt |-> "Transport Error"],
                       [fmt |-> "Cannot deserialize response body"]}

\* a batch whose POST timed out
C17_Witness ==
    /\ IsBatch
    /\ Len(kw) = 2
    /\ thrown = Thrown("post", "TimeoutError")
    /\ outcome = TransportError([fmt |-> "Transport Error"], BatchTag,
                                "TimeoutError")

\* batch_message failed on what the server replied: nothing was thrown into
\* it but the decode error of the body
FailedOnReply ==
    /\ IsBatch
    /\ pc = "done"
    /\ HasResponse
    /\ outcome.kind = "raise"
    /\ thrown.exc \in {"none", "ValueError"}

\* C18 (as stated): every failure of batch_message caused by the server's
\* reply is a TransportError carrying the batch marker or a response-level
\* error of the response parser.
C18_Original ==
    FailedOnReply =>
        \/ outcome.exc = "TransportError" /\ outcome.tag = BatchTag
        \/ outcome.exc = "ProtocolError"

\* the elements of the decoded array that line 78 keeps, in order
Handed == r_data(body.a).s

KnownId(p) == Has(id_msg(kw).d, Handed[p][1])

\* the outcome of the response parser on the p-th element kept
Parsed(p) ==
    parse_response(kw[KwGet(kw, Get(id_msg(kw).d, Handed[p][1]))][2],
                   JObj(Handed[p][2]), TRUE)

\* the p-th element is the first the parser rejects, every element before
\* it having been looked up and parsed
FirstRejected(p) ==
    /\ \A q \in 1..p : KnownId(q)
    /\ \A q \in 1..(p - 1) : Parsed(q).kind = "return"
    /\ Parsed(p).kind = "raise"

BatchCorrelated ==
    /\ IsBatch
    /\ pc = "done"
    /\ body.t = "arr"
    /\ r_data(body.a).ok

HasNotification == \E i \in 1..Len(kw) : KwId(i) = None

\* C20: batch_message given a batch in which a Request is a notification
\* fails before any HTTP request: nothing is posted, no response is read
\* and no mapping is returned.
C20_NotificationInBatchFails ==
    (IsBatch /\ HasNotification) =>
        /\ posts = <<>>
        /\ ~HasResponse
        /\ jsonCalls = 0
        /\ parseCalls = 0
        /\ pc \in {"created", "done"}
        /\ pc = "done" => outcome = Raise("KeyError")

\* a notification next to a Request with an id
C20_Witness ==
    /\ IsBatch
    /\ Len(kw) = 2
    /\ KwId(1) # None
    /\ KwId(2) = None
    /\ pc = "done"
    /\ posts = <<>>
    /\ outcome = Raise("KeyError")

====
